---- MODULE Spec2Model ----
(***************************************************************************)
(* Model of horror.py: the Flask handlers ask_oracle and recent_releases  *)
(* and the lookup functions they call (get_movie_details,                 *)
(* get_recommendations_for_movie, generate_interesting_fact,              *)
(* get_recent_horror_releases).                                           *)
(*                                                                         *)
(* Conventions.  A Python str is a sequence of tokens (single characters  *)
(* where the code looks inside the string, one opaque token otherwise).   *)
(* Python None, as the value of a str-typed slot, is the sequence None.   *)
(* A Python dict is a function whose DOMAIN is its set of keys; a dict-   *)
(* typed slot holding None is the record NoneRec.  Every upstream HTTP    *)
(* call and every language-model call either raises or answers with a     *)
(* payload drawn from a bounded set.                                      *)
(***************************************************************************)
EXTENDS Integers, Sequences, FiniteSets, TLC

VARIABLES
    OPENAI_API_KEY,   \* TRUE iff the environment sets the key (line 15)
    OMDB_API_KEY,     \* line 17
    TMDB_API_KEY,     \* line 18
    pc,               \* position of the request being served
    route,            \* which handler serves the request
    data,             \* request.json of ask_oracle (line 292)
    query,            \* line 293
    potential_title,  \* lines 308-311
    movie_details,    \* line 302 / 314
    gmd,              \* outcome of get_movie_details: "none", "returned", "raised"
    omdb_data,        \* line 76
    tmdb_data,        \* line 92
    result,           \* line 95
    genre_map,        \* line 103 / 176
    movie_title,      \* argument of get_recommendations_for_movie
    rec_n,            \* len(rec_data["results"]) (lines 162, 170)
    i,                \* number of rec_data results scanned by the loop of line 180
    movie,            \* loop variable of lines 180 and 215
    recommendations,  \* line 178
    pop_n,            \* len(popular_data["results"]) (line 212)
    j,                \* number of popular results scanned by the loop of line 215
    ret,              \* value returned by get_recommendations_for_movie
    exc,              \* exception get_recommendations_for_movie raised
    interesting_fact, \* line 327
    limit,            \* line 404
    calls,            \* upstream endpoints called while serving this request
    response          \* what the client receives

vars == <<OPENAI_API_KEY, OMDB_API_KEY, TMDB_API_KEY, pc, route, data, query,
          potential_title, movie_details, gmd, omdb_data, tmdb_data, result,
          genre_map, movie_title, rec_n, i, movie, recommendations, pop_n, j,
          ret, exc, interesting_fact, limit, calls, response>>

-----------------------------------------------------------------------------
(* Bounds of the model.                                                    *)

\* longest "results" list the recommendations / similar endpoints return
MaxResults == 11
\* longest "results" list the popularity discovery returns
MaxPopular == 6
\* the same two bounds while the gatherer runs inside ask_oracle
HandlerMaxResults == 3
HandlerMaxPopular == 1
\* longest "results" list the recent-release discovery returns
MaxReleases == 3
\* largest ?limit= value a caller sends (the smallest is -MaxLimit)
MaxLimit == 3

-----------------------------------------------------------------------------
(* Python values and built-ins.                                            *)

None == <<"None">>
NoneRec == [none |-> TRUE]
IsNoneRec(d) == "none" \in DOMAIN d
EmptyDict == [k \in {} |-> None]

\* dict.get(k, default)
Get(d, k, default) == IF k \in DOMAIN d THEN d[k] ELSE default

\* truth value of d.get(k) for a list-valued key: present and non-empty
TruthyList(d, k) == k \in DOMAIN d /\ Len(d[k]) > 0

\* truth value of d.get(k) for a str-valued key: present, not None, not ""
TruthyStr(d, k) == k \in DOMAIN d /\ d[k] # None /\ d[k] # <<>>

Min(S) == CHOOSE x \in S : \A y \in S : x <= y
Max(S) == CHOOSE x \in S : \A y \in S : x >= y

\* xs[:n] for any integer n (a negative n counts from the end)
SliceTo(xs, n) ==
    LET stop == IF n < 0 THEN Max({0, Len(xs) + n}) ELSE Min({n, Len(xs)})
    IN SubSeq(xs, 1, stop)

\* s.split(sep) for a non-empty separator
RECURSIVE Split(_, _)
Split(s, sep) ==
    LET n == Len(sep)
        hits == {k \in 1..(Len(s) - n + 1) : SubSeq(s, k, k + n - 1) = sep}
    IN IF hits = {} THEN <<s>>
       ELSE <<SubSeq(s, 1, Min(hits) - 1)>>
            \o Split(SubSeq(s, Min(hits) + n, Len(s)), sep)

\* s.split(): the words between runs of white space
RECURSIVE SplitWs(_)
SplitWs(s) ==
    LET starts == {k \in 1..Len(s) : s[k] # " "}
    IN IF starts = {} THEN <<>>
       ELSE LET b == Min(starts)
                ends == {k \in b..Len(s) : k = Len(s) \/ s[k + 1] = " "}
                e == Min(ends)
            IN <<SubSeq(s, b, e)>> \o SplitWs(SubSeq(s, e + 1, Len(s)))

\* s.strip()
Strip(s) ==
    LET keep == {k \in 1..Len(s) : s[k] # " "}
    IN IF keep = {} THEN <<>> ELSE SubSeq(s, Min(keep), Max(keep))

LowerChar(c) ==
    CASE c = "A" -> "a" [] c = "I" -> "i" [] c = "M" -> "m"
      [] c = "S" -> "s" [] c = "T" -> "t" [] c = "W" -> "w"
      [] OTHER -> c

\* s.lower()
Lower(s) == [k \in 1..Len(s) |-> LowerChar(s[k])]

\* s.startswith(p)
StartsWith(s, p) == Len(s) >= Len(p) /\ SubSeq(s, 1, Len(p)) = p

\* sub in s
Contains(s, sub) ==
    \E k \in 1..(Len(s) - Len(sub) + 1) : SubSeq(s, k, k + Len(sub) - 1) = sub

\* xs without its k-th element
Without(xs, k) == SubSeq(xs, 1, k - 1) \o SubSeq(xs, k + 1, Len(xs))

\* the orders random.shuffle(xs) may leave xs in
RECURSIVE Shuffles(_)
Shuffles(xs) ==
    IF Len(xs) <= 1 THEN {xs}
    ELSE UNION { { <<xs[k]>> \o t : t \in Shuffles(Without(xs, k)) } :
                 k \in 1..Len(xs) }

-----------------------------------------------------------------------------
(* ask_oracle: the query heuristic of lines 305-312.                       *)

Keywords ==
    { <<"m","o","v","i","e">>, <<"f","i","l","m">>, <<"w","a","t","c","h">>,
      <<"s","e","e">>, <<"a","b","o","u","t">> }

Prefixes ==
    << <<"t","e","l","l"," ","m","e"," ","a","b","o","u","t">>,
       <<"w","h","a","t"," ","i","s">>,
       <<"d","o"," ","y","o","u"," ","k","n","o","w">>,
       <<"h","a","v","e"," ","y","o","u"," ","s","e","e","n">> >>

\* line 306
LooksLikeMovie(q) ==
    Len(SplitWs(q)) < 5 \/ \E kw \in Keywords : Contains(Lower(q), kw)

\* lines 308-312: the first matching prefix is cut off and the rest stripped
PotentialTitle(q) ==
    LET hit == {p \in 1..Len(Prefixes) : StartsWith(Lower(q), Prefixes[p])}
    IN IF hit = {} THEN q
       ELSE Strip(SubSeq(q, Len(Prefixes[Min(hit)]) + 1, Len(q)))

\* faulty variant of QueryMissing: the test is "query is None"
QueryIsNone(q) == q = None

\* line 295: "not query"
QueryMissing(q) == q = <<>>

\* faulty variant of ClientAvailable: the client is built without looking at the key
ClientAlways == TRUE

\* line 23: the language-model client exists iff the key is set
ClientAvailable == OPENAI_API_KEY

\* the query strings a caller sends
Queries ==
    { <<>>,
      <<"S","a","w">>,
      <<"T","e","l","l"," ","m","e"," ","a","b","o","u","t"," ","S","a","w">>,
      <<"w","h","a","t"," ","i","s"," ","I","t">>,
      <<"t","e","l","l"," ","m","e"," ","a","b","o","u","t">>,
      <<"i","s"," ","i","t"," ","o","k"," ","t","o"," ","c","r","y">>,
      <<"a"," ","b"," ","c"," ","d"," ","f","i","l","m">> }

\* the JSON bodies a caller posts to /ask-oracle
Bodies == {EmptyDict} \cup {[query |-> q] : q \in Queries}

-----------------------------------------------------------------------------
(* Upstream payloads.                                                      *)

OmdbResponses ==
    { [Response |-> <<"False">>, Error |-> <<"Movie not found!">>],
      [Error |-> <<"Invalid API key!">>],
      [Response |-> <<"True">>, Title |-> <<"A.title">>, Year |-> <<"A.year">>,
       Director |-> <<"A.director">>, Plot |-> <<"A.plot">>,
       Poster |-> <<"A.poster">>, imdbID |-> <<"A.id">>,
       Genre |-> <<"Horror", ",", " ", "Thriller">>],
      [Response |-> <<"True">>, Title |-> <<"A.title">>, imdbID |-> <<"A.id">>,
       Genre |-> <<"Horror", ",", "Thriller">>],
      [Response |-> <<"True">>] }

B1 == [id |-> 1, title |-> <<"B.title">>,
       release_date |-> <<"1978", "-", "10", "-", "25">>,
       overview |-> <<"B.plot">>, poster_path |-> <<"/b1.jpg">>,
       genre_ids |-> <<27, 99>>]
B2 == [id |-> 2, title |-> <<"B.other">>, release_date |-> <<>>,
       genre_ids |-> <<>>]

TmdbSearchResponses ==
    { [results |-> <<>>],
      [status_message |-> <<"Invalid API key">>],
      [results |-> <<B1>>],
      [results |-> <<B2, B1>>],
      [results |-> <<B1, B2>>] }

GenreResponses ==
    { [genres |-> << [id |-> 27, name |-> <<"Horror">>],
                     [id |-> 1, name |-> <<"Comedy">>],
                     [id |-> 2, name |-> <<"Drama">>],
                     [id |-> 3, name |-> <<"Romance">>] >>],
      [status_message |-> <<"Invalid API key">>] }

\* {g['id']: g['name'] for g in genre_data.get('genres', [])}: a later entry
\* with the same id overrides an earlier one
GenreMap(genre_data) ==
    LET gs == Get(genre_data, "genres", <<>>)
    IN [gid \in {gs[k].id : k \in DOMAIN gs} |->
           gs[Max({k \in DOMAIN gs : gs[k].id = gid})].name]

\* faulty variant of GenreNames: the lookup never hits (the table keyed by name)
GenreNamesNoHit(gmap, ids) == [k \in 1..Len(ids) |-> <<"Unknown">>]

\* [genre_map.get(g_id, "Unknown") for g_id in ids]
GenreNames(gmap, ids) ==
    [k \in 1..Len(ids) |-> IF ids[k] \in DOMAIN gmap THEN gmap[ids[k]]
                           ELSE <<"Unknown">>]

\* release_date.split("-")[0] if release_date else "N/A"
YearOf(m) ==
    IF TruthyStr(m, "release_date") THEN Split(m.release_date, <<"-">>)[1]
    ELSE <<"N/A">>

\* f"https://image.tmdb.org/t/p/w500{poster_path}" if poster_path else None
PosterOf(m) ==
    IF TruthyStr(m, "poster_path")
    THEN <<"https://image.tmdb.org/t/p/w500">> \o m.poster_path
    ELSE None

-----------------------------------------------------------------------------
(* get_movie_details (lines 66-115).                                       *)

\* faulty variant of OmdbRecord: the Genre string is not split
OmdbRecordNoSplit(d) ==
    [title    |-> Get(d, "Title", None),
     year     |-> Get(d, "Year", None),
     director |-> Get(d, "Director", None),
     plot     |-> Get(d, "Plot", None),
     poster   |-> Get(d, "Poster", None),
     imdb_id  |-> Get(d, "imdbID", None),
     genres   |-> <<Get(d, "Genre", <<>>)>>]

\* lines 79-88
OmdbRecord(d) ==
    [title    |-> Get(d, "Title", None),
     year     |-> Get(d, "Year", None),
     director |-> Get(d, "Director", None),
     plot     |-> Get(d, "Plot", None),
     poster   |-> Get(d, "Poster", None),
     imdb_id  |-> Get(d, "imdbID", None),
     genres   |-> Split(Get(d, "Genre", <<>>), <<",", " ">>)]

\* lines 106-113
TmdbRecord(r, genres) ==
    [title   |-> Get(r, "title", None),
     year    |-> YearOf(r),
     plot    |-> Get(r, "overview", None),
     poster  |-> PosterOf(r),
     imdb_id |-> None,
     genres  |-> genres]

Init ==
    /\ OPENAI_API_KEY \in BOOLEAN
    /\ OMDB_API_KEY \in BOOLEAN
    /\ TMDB_API_KEY \in BOOLEAN
    /\ pc = "idle"
    /\ route = "none"
    /\ data = EmptyDict
    /\ query = <<>>
    /\ potential_title = None
    /\ movie_details = NoneRec
    /\ gmd = "none"
    /\ omdb_data = NoneRec
    /\ tmdb_data = NoneRec
    /\ result = NoneRec
    /\ genre_map = EmptyDict
    /\ movie_title = None
    /\ rec_n = 0
    /\ i = 0
    /\ movie = NoneRec
    /\ recommendations = <<>>
    /\ pop_n = 0
    /\ j = 0
    /\ ret = None
    /\ exc = "none"
    /\ interesting_fact = None
    /\ limit = 0
    /\ calls = {}
    /\ response = NoneRec

config == <<OPENAI_API_KEY, OMDB_API_KEY, TMDB_API_KEY>>
gmdLocals == <<omdb_data, tmdb_data, result>>
grmLocals == <<movie_title, rec_n, i, movie, recommendations, pop_n, j, ret,
               exc>>

\* ask_oracle, lines 292-312: read the query, reject an empty one, classify
AskOracle ==
    /\ pc = "idle"
    /\ \E body \in Bodies :
        /\ data' = body
        /\ query' = Get(body, "query", <<>>)
    /\ route' = "ask_oracle"
    /\ IF QueryMissing(query')
       THEN /\ response' = [status |-> 400, error |-> <<"Query is required">>]
            /\ pc' = "done"
            /\ UNCHANGED potential_title
       ELSE /\ UNCHANGED response
            /\ IF LooksLikeMovie(query')
               THEN /\ potential_title' = PotentialTitle(query')
                    /\ pc' = "gmd_omdb"
               ELSE /\ UNCHANGED potential_title
                    /\ pc' = "respond"
    /\ UNCHANGED <<config, movie_details, gmd, gmdLocals, genre_map, grmLocals,
                   interesting_fact, limit, calls>>

\* get_movie_details raises; the except of line 315 leaves movie_details None
GmdRaise ==
    /\ gmd' = "raised"
    /\ movie_details' = NoneRec
    /\ pc' = "respond"

\* get_movie_details returns v; line 314 assigns it
GmdReturn(v) ==
    /\ gmd' = "returned"
    /\ movie_details' = v
    /\ pc' = "respond"

\* lines 68-88: key check, OMDb request, OMDb match
GmdOmdb ==
    /\ pc = "gmd_omdb"
    /\ IF ~OMDB_API_KEY \/ ~TMDB_API_KEY
       THEN GmdRaise /\ UNCHANGED <<omdb_data, calls>>
       ELSE /\ calls' = calls \cup {"omdb"}
            /\ \/ GmdRaise /\ UNCHANGED omdb_data
               \/ \E d \in OmdbResponses :
                    /\ omdb_data' = d
                    /\ IF Get(d, "Response", None) = <<"True">>
                       THEN GmdReturn(OmdbRecord(d))
                       ELSE /\ pc' = "gmd_tmdb"
                            /\ UNCHANGED <<gmd, movie_details>>
    /\ UNCHANGED <<config, route, data, query, potential_title, tmdb_data,
                   result, genre_map, grmLocals, interesting_fact, limit,
                   response>>

\* lines 91-98 and 106-115: TMDb search, first result, no-result return
GmdTmdbSearch ==
    /\ pc = "gmd_tmdb"
    /\ calls' = calls \cup {"tmdb_search"}
    /\ \/ GmdRaise /\ UNCHANGED <<tmdb_data, result>>
       \/ \E d \in TmdbSearchResponses :
            /\ tmdb_data' = d
            /\ IF TruthyList(d, "results")
               THEN /\ result' = d.results[1]
                    /\ IF TruthyList(result', "genre_ids")
                       THEN /\ pc' = "gmd_genres"
                            /\ UNCHANGED <<gmd, movie_details>>
                       ELSE GmdReturn(TmdbRecord(result', <<>>))
               ELSE /\ GmdReturn(NoneRec)
                    /\ UNCHANGED result
    /\ UNCHANGED <<config, route, data, query, potential_title, omdb_data,
                   genre_map, grmLocals, interesting_fact, limit, response>>

\* lines 99-113: genre table request, id -> name, record
GmdGenres ==
    /\ pc = "gmd_genres"
    /\ calls' = calls \cup {"tmdb_genres"}
    /\ \/ GmdRaise /\ UNCHANGED genre_map
       \/ \E g \in GenreResponses :
            /\ genre_map' = GenreMap(g)
            /\ GmdReturn(TmdbRecord(result, GenreNames(genre_map', result.genre_ids)))
    /\ UNCHANGED <<config, route, data, query, potential_title, gmdLocals,
                   grmLocals, interesting_fact, limit, response>>

\* lines 320-321 and 357-360: branch on movie_details; no client, no movie -> 500
Respond ==
    /\ pc = "respond"
    /\ omdb_data' = NoneRec
    /\ tmdb_data' = NoneRec
    /\ result' = NoneRec
    /\ genre_map' = EmptyDict
    /\ IF ~IsNoneRec(movie_details)
       THEN /\ movie_title' = Get(movie_details, "title", None)
            /\ pc' = "grm_search"
            /\ UNCHANGED response
       ELSE /\ UNCHANGED movie_title
            /\ IF ~ClientAvailable
               THEN /\ response' = [status |-> 500,
                                    error |-> <<"OpenAI API key is missing.">>]
                    /\ pc' = "done"
               ELSE /\ pc' = "chat"
                    /\ UNCHANGED response
    /\ UNCHANGED <<config, route, data, query, potential_title, movie_details,
                   gmd, rec_n, i, movie, recommendations, pop_n, j, ret, exc,
                   interesting_fact, limit, calls>>

\* lines 362-384: the general responder
Chat ==
    /\ pc = "chat"
    /\ calls' = calls \cup {"openai_chat"}
    /\ \/ response' = [status |-> 200, summary |-> <<"oracle_response">>,
                       interesting_fact |-> None, recommendations |-> <<>>]
       \/ response' = [status |-> 500, error |-> <<"str(e)">>]
    /\ pc' = "done"
    /\ UNCHANGED <<config, route, data, query, potential_title, movie_details,
                   gmd, gmdLocals, genre_map, grmLocals, interesting_fact,
                   limit>>

-----------------------------------------------------------------------------
(* get_recommendations_for_movie (lines 141-241).                          *)
(*                                                                         *)
(* rec_data["results"] and popular_data["results"] are read one element   *)
(* per loop iteration and never again, so the model keeps each list's     *)
(* length and draws an element's content when the loop reaches it.  Of an *)
(* entry the model keeps title, genres and imdb_id (the key the fallback  *)
(* stage does not set); year, plot, poster_url, amazon_link and timestamp *)
(* are copies of fields no branch reads.                                   *)

\* faulty variant of MaxRecommendations: the cap is off by one
MaxRecommendationsOff == 5 + 1

\* lines 205, 235, 241: the size at which both loops break and the final cut
MaxRecommendations == 5
\* line 180: rec_data["results"][:10]
MaxScan == 10
\* line 209: the fallback runs below this many collected entries
MinPrimary == 3
\* line 165: the similar list is fetched below this many recommendations
MinRecommended == 3
\* faulty variant of PopularScan: the slice is one short
PopularScanOff == 5 - 1

\* line 215: popular_data["results"][:5]
PopularScan == 5
\* line 404: request.args.get("limit", 5, type=int)
DefaultLimit == 5

T0 == <<"t0">>
T1 == <<"t1">>

\* the movies a recommendations / similar list may hold
Candidates ==
    { [id |-> 10, title |-> T0, genre_ids |-> <<1>>],
      [id |-> 11, title |-> T0, genre_ids |-> <<27, 1, 2>>],
      [id |-> 12, title |-> T1, genre_ids |-> <<1>>],
      [id |-> 13, title |-> T0, genre_ids |-> <<1, 2, 3>>],
      [id |-> 14, title |-> T0, genre_ids |-> <<>>],
      [id |-> 15, title |-> T1],
      [id |-> 16, genre_ids |-> <<27>>] }

HandlerCandidates ==
    { [id |-> 10, title |-> T0, genre_ids |-> <<1>>],
      [id |-> 13, title |-> T0, genre_ids |-> <<1, 2, 3>>],
      [id |-> 16, genre_ids |-> <<27>>] }

\* the movies the popularity discovery (with_genres=27) may hold
PopularMovies ==
    { [id |-> 20 + k, title |-> t, genre_ids |-> <<27>>] :
        k \in {0}, t \in {T0, T1, <<"p2">>, <<"p3">>} }

HandlerPopularMovies ==
    { [id |-> 20, title |-> T0, genre_ids |-> <<27>>],
      [id |-> 20, title |-> <<"p2">>, genre_ids |-> <<27>>] }

DetailsResponses == { [id |-> 10, external_ids |-> [imdb_id |-> <<"tt10">>]] }

\* lines 182-184 and 220-222
GenresOf(gmap, m) ==
    IF TruthyList(m, "genre_ids") THEN GenreNames(gmap, m.genre_ids) ELSE <<>>

\* lines 183-186: the candidate passes the filter
KeepCandidate(gmap, m) ==
    /\ TruthyList(m, "genre_ids")
    /\ \/ \E k \in 1..Len(GenresOf(gmap, m)) : GenresOf(gmap, m)[k] = <<"Horror">>
       \/ Len(GenresOf(gmap, m)) <= 2

\* lines 191-202
PrimaryEntry(gmap, m, det) ==
    [title   |-> Get(m, "title", None),
     genres  |-> GenresOf(gmap, m),
     imdb_id |-> Get(Get(det, "external_ids", EmptyDict), "imdb_id", <<>>)]

\* lines 224-232
FallbackEntry(gmap, m) ==
    [title  |-> Get(m, "title", None),
     genres |-> GenresOf(gmap, m)]

\* faulty variant of IsDuplicate: only the entry added last is compared
IsDuplicateOfLast(recs, m) ==
    Len(recs) > 0 /\ recs[Len(recs)].title = Get(m, "title", None)

\* line 217
IsDuplicate(recs, m) ==
    \E k \in 1..Len(recs) : recs[k].title = Get(m, "title", None)

\* line 209
AfterPrimary(recs) ==
    IF Len(recs) < MinPrimary THEN "grm_popular" ELSE "grm_return"

\* lines 239-241: the orders random.shuffle may leave, cut to the first five
ShuffledResults(recs) ==
    { SliceTo(s, MaxRecommendations) : s \in Shuffles(recs) }

GrmSet(n, ii, m, recs, pn, jj) ==
    /\ rec_n' = n
    /\ i' = ii
    /\ movie' = m
    /\ recommendations' = recs
    /\ pop_n' = pn
    /\ j' = jj

\* a step inside the function
GrmStep(p, gmap, n, ii, m, recs, pn, jj) ==
    /\ pc' = p
    /\ genre_map' = gmap
    /\ GrmSet(n, ii, m, recs, pn, jj)
    /\ UNCHANGED <<movie_title, ret, exc>>

\* the function raises: its frame is gone.  kind is "upstream" when
\* requests.get or .json() raised (network, parse), else the exception class
GrmRaise(kind) ==
    /\ pc' = "grm_raised"
    /\ genre_map' = EmptyDict
    /\ GrmSet(0, 0, NoneRec, <<>>, 0, 0)
    /\ movie_title' = None
    /\ ret' = None
    /\ exc' = kind

\* the function returns v
GrmReturn(v) ==
    /\ pc' = "grm_done"
    /\ genre_map' = EmptyDict
    /\ GrmSet(0, 0, NoneRec, <<>>, 0, 0)
    /\ movie_title' = None
    /\ ret' = v
    /\ UNCHANGED exc

grmOthers == <<config, route, data, query, potential_title, movie_details,
               gmd, gmdLocals, interesting_fact, limit, response>>

\* lines 143-157: key check, quote(movie_title) (a TypeError on None), search
\* request, early return
GrmSearch ==
    /\ pc = "grm_search"
    /\ IF ~TMDB_API_KEY \/ movie_title = None
       THEN /\ GrmRaise(IF ~TMDB_API_KEY THEN "Exception" ELSE "TypeError")
            /\ UNCHANGED calls
       ELSE /\ calls' = calls \cup {"tmdb_search"}
            /\ \/ GrmRaise("upstream")
               \/ \E d \in TmdbSearchResponses :
                    IF TruthyList(d, "results")
                    THEN GrmStep("grm_recs", genre_map, 0, 0, NoneRec, <<>>, 0, 0)
                    ELSE GrmReturn(<<>>)
    /\ UNCHANGED grmOthers

\* lines 160-165: recommendations request
GrmRecs(Lens) ==
    /\ pc = "grm_recs"
    /\ calls' = calls \cup {"tmdb_recommendations"}
    /\ \/ GrmRaise("upstream")
       \/ \E n \in Lens :
            GrmStep(IF n < MinRecommended THEN "grm_similar" ELSE "grm_genres",
                    genre_map, n, 0, NoneRec, <<>>, 0, 0)
    /\ UNCHANGED grmOthers

\* lines 166-170: similar request; a non-empty answer replaces rec_data
GrmSimilar(Lens) ==
    /\ pc = "grm_similar"
    /\ calls' = calls \cup {"tmdb_similar"}
    /\ \/ GrmRaise("upstream")
       \/ \E n \in Lens :
            GrmStep("grm_genres", genre_map, IF n > 0 THEN n ELSE rec_n,
                    0, NoneRec, <<>>, 0, 0)
    /\ UNCHANGED grmOthers

\* lines 173-179: genre table request, empty list, loop entry
GrmGenres ==
    /\ pc = "grm_genres"
    /\ calls' = calls \cup {"tmdb_genres"}
    /\ \/ GrmRaise("upstream")
       \/ \E g \in GenreResponses :
            GrmStep(IF rec_n > 0 THEN "grm_scan" ELSE AfterPrimary(<<>>),
                    GenreMap(g), rec_n, 0, NoneRec, <<>>, 0, 0)
    /\ UNCHANGED grmOthers

\* lines 180-206: one iteration of the primary loop; quote(None) of line 200
\* is a TypeError
GrmScan(Cands) ==
    /\ pc = "grm_scan"
    /\ \E m \in Cands :
        LET last == i + 1 >= Min({rec_n, MaxScan})
        IN IF KeepCandidate(genre_map, m)
           THEN /\ calls' = calls \cup {"tmdb_details"}
                /\ \/ GrmRaise("upstream")
                   \/ IF "title" \notin DOMAIN m
                      THEN GrmRaise("TypeError")
                      ELSE \E det \in DetailsResponses :
                             LET recs == Append(recommendations,
                                                PrimaryEntry(genre_map, m, det))
                             IN GrmStep(IF Len(recs) >= MaxRecommendations \/ last
                                        THEN AfterPrimary(recs) ELSE "grm_scan",
                                        genre_map, rec_n, i + 1, m, recs, 0, 0)
           ELSE /\ UNCHANGED calls
                /\ GrmStep(IF last THEN AfterPrimary(recommendations)
                           ELSE "grm_scan",
                           genre_map, rec_n, i + 1, m, recommendations, 0, 0)
    /\ UNCHANGED grmOthers

\* lines 210-214: popularity request.  rec_data and the primary loop's
\* variables are not read again: the model forgets them here
GrmPopular(Lens) ==
    /\ pc = "grm_popular"
    /\ calls' = calls \cup {"tmdb_popular"}
    /\ \/ GrmRaise("upstream")
       \/ \E n \in Lens :
            GrmStep(IF n > 0 THEN "grm_fallback" ELSE "grm_return",
                    genre_map, 0, 0, NoneRec, recommendations, n, 0)
    /\ UNCHANGED grmOthers

\* lines 215-236: one iteration of the fallback loop
GrmFallback(Movies) ==
    /\ pc = "grm_fallback"
    /\ \E m \in Movies :
        LET last == j + 1 >= Min({pop_n, PopularScan})
        IN IF IsDuplicate(recommendations, m)
           THEN GrmStep(IF last THEN "grm_return" ELSE "grm_fallback",
                        genre_map, 0, 0, NoneRec, recommendations, pop_n, j + 1)
           ELSE LET recs == Append(recommendations, FallbackEntry(genre_map, m))
                IN GrmStep(IF Len(recs) >= MaxRecommendations \/ last
                           THEN "grm_return" ELSE "grm_fallback",
                           genre_map, 0, 0, NoneRec, recs, pop_n, j + 1)
    /\ UNCHANGED calls
    /\ UNCHANGED grmOthers

\* lines 239-241: shuffle, cut, return
GrmShuffle ==
    /\ pc = "grm_return"
    /\ \E v \in ShuffledResults(recommendations) : GrmReturn(v)
    /\ UNCHANGED calls
    /\ UNCHANGED grmOthers

-----------------------------------------------------------------------------
(* ask_oracle after the resolver found a movie (lines 321-356).            *)

\* line 324 stands outside every try: the exception leaves ask_oracle
Propagate ==
    /\ pc = "grm_raised"
    /\ route = "ask_oracle"
    /\ response' = [status |-> 500, uncaught |-> exc]
    /\ pc' = "done"
    /\ UNCHANGED <<config, route, data, query, potential_title, movie_details,
                   gmd, gmdLocals, genre_map, grmLocals, interesting_fact,
                   limit, calls>>

\* lines 327-356 with generate_interesting_fact (lines 251-273) and the payload
GenerateFact ==
    /\ pc = "grm_done"
    /\ route = "ask_oracle"
    /\ IF ~ClientAvailable
       THEN /\ interesting_fact' = <<"cannot reveal them right now">>
            /\ UNCHANGED calls
       ELSE /\ calls' = calls \cup {"openai_fact"}
            /\ \/ interesting_fact' = <<"fact">>
               \/ interesting_fact' = <<"shrouded in mystery">>
    /\ response' = [status           |-> 200,
                    movie_title      |-> Get(movie_details, "title", None),
                    interesting_fact |-> interesting_fact',
                    recommendations  |-> ret,
                    imdb_id          |-> Get(movie_details, "imdb_id", <<>>),
                    year             |-> Get(movie_details, "year", <<>>),
                    director         |-> Get(movie_details, "director", <<>>),
                    poster           |-> Get(movie_details, "poster", <<>>)]
    /\ pc' = "done"
    /\ UNCHANGED <<config, route, data, query, potential_title, movie_details,
                   gmd, gmdLocals, genre_map, grmLocals, limit>>

-----------------------------------------------------------------------------
(* recent_releases (lines 401-416) with get_recent_horror_releases         *)
(* (lines 117-139).                                                        *)

ReleaseMovies ==
    { [title |-> <<"r1">>, release_date |-> <<"2024-01-02">>,
       poster_path |-> <<"/r1.jpg">>],
      [title |-> <<"r2">>, release_date |-> <<"2024-01-01">>] }

RECURSIVE SeqsUpTo(_, _)
SeqsUpTo(S, n) ==
    IF n = 0 THEN {<<>>}
    ELSE SeqsUpTo(S, n - 1)
         \cup {Append(s, x) : s \in {t \in SeqsUpTo(S, n - 1) : Len(t) = n - 1},
                              x \in S}

ReleaseResponses ==
    {[results |-> rs] : rs \in SeqsUpTo(ReleaseMovies, MaxReleases)}
    \cup {[status_message |-> <<"Invalid API key">>]}

\* the ?limit= argument: absent, not a number, or an integer
LimitArgs ==
    {[kind |-> "absent"], [kind |-> "text"]}
    \cup {[kind |-> "int", value |-> n] : n \in (0 - MaxLimit)..MaxLimit}

\* line 404
ParseLimit(arg) == IF arg.kind = "int" THEN arg.value ELSE DefaultLimit

\* lines 134-138
ReleaseEntry(m) ==
    [title        |-> Get(m, "title", None),
     release_date |-> Get(m, "release_date", None),
     poster       |-> PosterOf(m)]

\* lines 131-139
Releases(d, n) ==
    IF TruthyList(d, "results")
    THEN [k \in 1..Len(SliceTo(d.results, n)) |-> ReleaseEntry(SliceTo(d.results, n)[k])]
    ELSE <<>>

RecentReleases ==
    /\ pc = "idle"
    /\ route' = "recent_releases"
    /\ \E arg \in LimitArgs : limit' = ParseLimit(arg)
    /\ IF ~TMDB_API_KEY
       THEN /\ response' = [status |-> 500, error |-> <<"str(e)">>]
            /\ UNCHANGED calls
       ELSE /\ calls' = calls \cup {"tmdb_recent"}
            /\ \/ response' = [status |-> 500, error |-> <<"str(e)">>]
               \/ \E d \in ReleaseResponses :
                    response' = [status |-> 200, releases |-> Releases(d, limit')]
    /\ pc' = "done"
    /\ UNCHANGED <<config, data, query, potential_title, movie_details, gmd,
                   gmdLocals, genre_map, grmLocals, interesting_fact>>

-----------------------------------------------------------------------------
(* Specifications.                                                         *)

\* the server handling one request
Next ==
    \/ AskOracle
    \/ GmdOmdb
    \/ GmdTmdbSearch
    \/ GmdGenres
    \/ Respond
    \/ Chat
    \/ GrmSearch
    \/ GrmRecs(0..HandlerMaxResults)
    \/ GrmSimilar(0..HandlerMaxResults)
    \/ GrmGenres
    \/ GrmScan(HandlerCandidates)
    \/ GrmPopular(0..HandlerMaxPopular)
    \/ GrmFallback(HandlerPopularMovies)
    \/ GrmShuffle
    \/ Propagate
    \/ GenerateFact
    \/ RecentReleases

Spec == Init /\ [][Next]_vars

\* get_recommendations_for_movie called on its own
InitGatherer ==
    /\ OPENAI_API_KEY = FALSE
    /\ OMDB_API_KEY = FALSE
    /\ TMDB_API_KEY \in BOOLEAN
    /\ pc = "grm_search"
    /\ route = "direct"
    /\ data = EmptyDict
    /\ query = <<>>
    /\ potential_title = None
    /\ movie_details = NoneRec
    /\ gmd = "none"
    /\ omdb_data = NoneRec
    /\ tmdb_data = NoneRec
    /\ result = NoneRec
    /\ genre_map = EmptyDict
    /\ movie_title \in {T0, None}
    /\ rec_n = 0
    /\ i = 0
    /\ movie = NoneRec
    /\ recommendations = <<>>
    /\ pop_n = 0
    /\ j = 0
    /\ ret = None
    /\ exc = "none"
    /\ interesting_fact = None
    /\ limit = 0
    /\ calls = {}
    /\ response = NoneRec

NextGatherer ==
    \/ GrmSearch
    \/ GrmRecs(0..MaxResults)
    \/ GrmSimilar(0..MaxResults)
    \/ GrmGenres
    \/ GrmScan(Candidates)
    \/ GrmPopular(0..MaxPopular)
    \/ GrmFallback(PopularMovies)
    \/ GrmShuffle

SpecGatherer == InitGatherer /\ [][NextGatherer]_vars

-----------------------------------------------------------------------------
(* Properties.                                                             *)

\* lines 224-232 set no imdb_id key: the entry was added by the fallback stage
FromFallback(e) == "imdb_id" \notin DOMAIN e

\* the entries the primary stage collected
PrimaryCount ==
    Cardinality({k \in 1..Len(recommendations) : ~FromFallback(recommendations[k])})

\* the entries the fallback stage added
FallbackCount ==
    Cardinality({k \in 1..Len(recommendations) : FromFallback(recommendations[k])})

\* the popularity request of line 211 was made
FallbackRan == "tmdb_popular" \in calls

\* OMDb answered and reported a match (line 78)
OmdbMatched ==
    ~IsNoneRec(omdb_data) /\ Get(omdb_data, "Response", None) = <<"True">>

\* OMDb answered and reported no match
OmdbMissed ==
    ~IsNoneRec(omdb_data) /\ Get(omdb_data, "Response", None) # <<"True">>

\* C1: whatever the upstream answers, get_recommendations_for_movie returns a
\* list of at most 5 entries.
C1_AtMostFive == pc = "grm_done" => Len(ret) <= 5

C1_Witness == pc = "grm_done" /\ Len(ret) = 5

\* C2: in the list being built, an entry added by the popularity fallback has
\* a title different from the title of every entry before it.
C2_FallbackTitlesDistinct ==
    \A k \in 1..Len(recommendations) :
        FromFallback(recommendations[k]) =>
            \A m \in 1..(k - 1) :
                recommendations[m].title # recommendations[k].title

\* the fallback has skipped a duplicate and added entries after primary ones
C2_Witness ==
    /\ pc = "grm_return"
    /\ PrimaryCount >= 1
    /\ FallbackCount >= 2
    /\ j > FallbackCount

\* C3: when OMDb reports a match, get_movie_details returns the record whose
\* title, year, director, plot, poster, external id and genres are those of
\* the OMDb answer, and no TMDb endpoint has been called.
C3_OmdbHitUsesOnlyOmdb ==
    (pc = "respond" /\ OmdbMatched) =>
        /\ gmd = "returned"
        /\ movie_details.title = Get(omdb_data, "Title", None)
        /\ movie_details.year = Get(omdb_data, "Year", None)
        /\ movie_details.director = Get(omdb_data, "Director", None)
        /\ movie_details.plot = Get(omdb_data, "Plot", None)
        /\ movie_details.poster = Get(omdb_data, "Poster", None)
        /\ movie_details.imdb_id = Get(omdb_data, "imdbID", None)
        /\ movie_details.genres = Split(Get(omdb_data, "Genre", <<>>), <<",", " ">>)
        /\ calls = {"omdb"}

C3_Witness ==
    /\ pc = "respond"
    /\ OmdbMatched
    /\ movie_details.director = <<"A.director">>
    /\ movie_details.genres = << <<"Horror">>, <<"Thriller">> >>

\* C4: when OMDb reports no match, TMDb is searched; with a result, the record
\* returned is built from the first result, every genre id the table holds is
\* replaced by the table's name, there is no director and the external id is
\* None; without a result the function returns None and does not raise.
C4_TmdbFallback ==
    (pc = "respond" /\ OmdbMissed) =>
        /\ "tmdb_search" \in calls
        /\ (~IsNoneRec(tmdb_data) /\ ~TruthyList(tmdb_data, "results")) =>
              (gmd = "returned" /\ IsNoneRec(movie_details))
        /\ (~IsNoneRec(tmdb_data) /\ TruthyList(tmdb_data, "results")
                /\ gmd = "returned") =>
              LET first == tmdb_data.results[1]
                  ids == Get(first, "genre_ids", <<>>)
              IN /\ ~IsNoneRec(movie_details)
                 /\ movie_details.title = Get(first, "title", None)
                 /\ movie_details.plot = Get(first, "overview", None)
                 /\ "director" \notin DOMAIN movie_details
                 /\ movie_details.imdb_id = None
                 /\ Len(movie_details.genres) = Len(ids)
                 /\ \A k \in 1..Len(ids) :
                        ids[k] \in DOMAIN genre_map =>
                            movie_details.genres[k] = genre_map[ids[k]]

C4_Witness ==
    /\ pc = "respond"
    /\ OmdbMissed
    /\ gmd = "returned"
    /\ ~IsNoneRec(movie_details)
    /\ movie_details.genres = << <<"Horror">>, <<"Unknown">> >>

\* C5: a request to /ask-oracle whose query is empty or missing is answered
\* 400 at once, before any upstream or language-model call.
C5_EmptyQueryRejected ==
    (route = "ask_oracle" /\ Get(data, "query", <<>>) = <<>>) =>
        (pc = "done" /\ response.status = 400 /\ calls = {})

C5_Witness ==
    /\ route = "ask_oracle"
    /\ "query" \notin DOMAIN data
    /\ pc = "done"
    /\ response.status = 400

\* C6: a request to /ask-oracle with a non-empty query, no language-model
\* client and no movie matched is answered 500 without a language-model call.
C6_NoClientNoMovie ==
    (route = "ask_oracle" /\ pc = "done" /\ ~QueryMissing(query)
        /\ ~OPENAI_API_KEY /\ IsNoneRec(movie_details)) =>
        (response.status = 500 /\ calls \cap {"openai_chat", "openai_fact"} = {})

\* the resolver ran and found nothing
C6_Witness ==
    /\ route = "ask_oracle"
    /\ pc = "done"
    /\ ~OPENAI_API_KEY
    /\ gmd = "returned"
    /\ IsNoneRec(movie_details)
    /\ response.status = 500

\* C7: /recent-releases returns at most limit entries, for every integer
\* limit (a limit below 0 allows no entry, as limit 0 does).
C7_AtMostLimit ==
    (route = "recent_releases" /\ pc = "done" /\ response.status = 200) =>
        Len(response.releases) <= Max({limit, 0})

\* C8: no failure of an upstream call (network, parse) leaves ask_oracle
\* uncaught.
C8_NoUncaughtFailure ==
    "uncaught" \in DOMAIN response => response.uncaught # "upstream"

\* the genre names the claim resolves for a candidate
ClaimedGenres(gmap, m) == GenreNames(gmap, Get(m, "genre_ids", <<>>))

\* C9: a scanned candidate is kept if and only if its genre names include
\* "Horror" or it has at most 2 genres, a candidate without genres included.
C9_KeptIffHorrorOrFewGenres ==
    [][(pc = "grm_scan" /\ pc' # "grm_raised") =>
          ((recommendations' # recommendations) <=>
              \/ \E k \in 1..Len(ClaimedGenres(genre_map, movie')) :
                    ClaimedGenres(genre_map, movie')[k] = <<"Horror">>
              \/ Len(ClaimedGenres(genre_map, movie')) <= 2)]_vars

\* C10 as stated: the fallback runs exactly when the primary stage collected
\* fewer than 3 entries, and it ends only with 5 entries in the list or with
\* every result of the popularity query considered.
C10_UntilFiveOrExhausted ==
    pc = "grm_return" =>
        /\ FallbackRan <=> PrimaryCount < 3
        /\ FallbackRan => (Len(recommendations) >= 5 \/ j = pop_n)

\* C10 amended: the fallback runs exactly when the primary stage collected
\* fewer than 3 entries, and it ends only with 5 entries in the list or with
\* each of the first 5 results of the popularity query considered.
C10_UntilFiveOrFirstFiveConsidered ==
    pc = "grm_return" =>
        /\ FallbackRan <=> PrimaryCount < 3
        /\ FallbackRan => (Len(recommendations) >= 5 \/ j = Min({pop_n, 5}))
        /\ FallbackCount <= j

C10_Witness ==
    /\ pc = "grm_return"
    /\ FallbackRan
    /\ pop_n > 5
    /\ j = 5
    /\ FallbackCount >= 1
    /\ Len(recommendations) < 5

\* C11: for a non-empty query, get_movie_details is never called with an
\* empty title: where the call of line 314 is about to run, the title left by
\* the prefix stripping holds at least one character.
C11_ResolverTitleNonEmpty ==
    (route = "ask_oracle" /\ pc = "gmd_omdb" /\ ~QueryMissing(query)) =>
        potential_title # <<>>

====
